---- MODULE Spec2Model ----
(***************************************************************************)
(* z-MPC: Laurent-series secret sharing with Pedersen commitments,         *)
(* Fiat-Shamir proofs of opening and Schnorr signatures over three curves. *)
(*                                                                         *)
(* Encoding used throughout.  A 32-byte string (scalar, coordinate,        *)
(* randomness, digest) is one natural number, a "block".  A byte vector is *)
(* a sequence of blocks; the one-byte SEC1 tag is a block of its own, so a *)
(* 33-byte SEC1 compressed point is <<tag, x>> and a 32-byte string is     *)
(* <<b>>.  The 256-bit curves are replaced by curves of the same shape     *)
(* over small prime fields; every group has prime order 7 (times the       *)
(* cofactor for the Edwards curve).                                        *)
(***************************************************************************)
EXTENDS Integers, Sequences, FiniteSets, TLC

(***************************************************************************)
(* Bounds of the exploration.                                              *)
(***************************************************************************)
\* largest threshold a LaurentSeries is built with
MaxThreshold == 2
\* largest participant count a LaurentSeries is built with
MaxParticipants == 3
\* longest share list handed to reconstruct_secret
MaxShares == 3

(***************************************************************************)
(* Results: Rust's Result<T, Error>; a panic is an Err of kind "panic".    *)
(*                                                                         *)
(* Every record of this module lists its fields in the order in which the  *)
(* names first occur in the module, whatever the order of the struct's     *)
(* declaration: that is the order TLC keeps a record in, so no record is   *)
(* rearranged while two workers hold it.                                   *)
(***************************************************************************)
Ok(v) == [v |-> v, ok |-> TRUE]

Err(kind) == [ok |-> FALSE, err |-> kind]

\* the `?` operator: an Err returns at once, an Ok hands its value on
Bind(r, F(_)) == IF r.ok THEN F(r.v) ELSE r

\* `let v = ...;`
Let(v, F(_)) == F(v)

(***************************************************************************)
(* types.rs                                                                *)
(***************************************************************************)
CurveType == {"Secp256k1", "P256", "Edwards25519"}

\* Display for CurveType, as the block that enters a hash input
CurveTypeToString(c) ==
    CASE c = "Secp256k1" -> 1
      [] c = "P256" -> 2
      [] c = "Edwards25519" -> 3

(***************************************************************************)
(* Curve parameters.                                                       *)
(***************************************************************************)
\* group order q: Curve::order
order(c) ==
    CASE c = "Secp256k1" -> 7
      [] c = "P256" -> 7
      [] c = "Edwards25519" -> 7

\* field modulus p: Curve::field_modulus
field_modulus(c) ==
    CASE c = "Secp256k1" -> 13
      [] c = "P256" -> 11
      [] c = "Edwards25519" -> 29

\* y^2 = x^3 + a x + b: secp256k1 has a = 0, b = 7; P-256 has a = -3
WeierstrassA(c) == IF c = "Secp256k1" THEN 0 ELSE 8

WeierstrassB(c) == IF c = "Secp256k1" THEN 7 ELSE 10

\* -x^2 + y^2 = 1 + d x^2 y^2 with d a non-square
EdwardsD == 2

\* the sign bit of a compressed Edwards point sits above the field bits
EdwardsSignBit == 32

Mod(a, m) == ((a % m) + m) % m

\* modular inverse, 0 for a non-invertible argument
ModInverse(a, m) ==
    IF \E b \in 1..(m - 1) : (a * b) % m = 1
    THEN CHOOSE b \in 1..(m - 1) : (a * b) % m = 1
    ELSE 0

(***************************************************************************)
(* curve/mod.rs: Scalar and Point are plain byte records.                  *)
(***************************************************************************)
Scalar_new(c, value) == [value |-> value, curve_type |-> c]

Point_new(c, x, y) == [curve_type |-> c, x |-> x, y |-> y]

(***************************************************************************)
(* Library scalars.  The Weierstrass libraries refuse a block that is not  *)
(* below the group order; curve25519 reduces it.                           *)
(***************************************************************************)
\* K256Scalar::from_bytes_be / P256Scalar::from_bytes_be
from_bytes_be(c, block) ==
    IF block < order(c) THEN Ok(block) ELSE Err("CurveError")

\* Ed25519Scalar::from_bytes_mod_order
from_bytes_mod_order(block) == block % order("Edwards25519")

(***************************************************************************)
(* Library points, Weierstrass.  An affine point is [inf, x, y].           *)
(***************************************************************************)
AffineIdentity == [x |-> 0, y |-> 0, inf |-> TRUE]

Affine(x, y) == [x |-> x, y |-> y, inf |-> FALSE]

OnWeierstrass(c, x, y) ==
    (y * y) % field_modulus(c)
        = (x * x * x + WeierstrassA(c) * x + WeierstrassB(c)) % field_modulus(c)

\* AffinePoint::from_compressed_bytes: a SEC1 compressed point is a tag
\* byte 0x02/0x03 followed by the 32-byte x; any other length is refused
Affine_from_compressed_bytes(c, bytes) ==
    IF Len(bytes) # 2 THEN Err("CurveError")
    ELSE IF bytes[1] \notin {2, 3} THEN Err("CurveError")
    ELSE IF bytes[2] >= field_modulus(c) THEN Err("CurveError")
    ELSE Let({y \in 0..(field_modulus(c) - 1) :
                 OnWeierstrass(c, bytes[2], y) /\ y % 2 = bytes[1] - 2},
             LAMBDA ys : IF ys = {} THEN Err("CurveError")
                         ELSE Ok(Affine(bytes[2], CHOOSE y \in ys : TRUE)))

\* to_encoded_point(true).as_bytes()
Affine_to_compressed(P) == <<2 + (P.y % 2), P.x>>

\* the group law behind `a_affine + b_affine`
WeierstrassAdd(c, P, Q) ==
    IF P.inf THEN Q
    ELSE IF Q.inf THEN P
    ELSE IF P.x = Q.x /\ (P.y + Q.y) % field_modulus(c) = 0 THEN AffineIdentity
    ELSE Let(field_modulus(c), LAMBDA p :
         Let(IF P.x = Q.x
             THEN ((3 * P.x * P.x + WeierstrassA(c))
                      * ModInverse((2 * P.y) % p, p)) % p
             ELSE (Mod(Q.y - P.y, p) * ModInverse(Mod(Q.x - P.x, p), p)) % p,
             LAMBDA lambda :
         Let(Mod(lambda * lambda - P.x - Q.x, p), LAMBDA x3 :
         Affine(x3, Mod(lambda * Mod(P.x - x3, p) - P.y, p)))))

RECURSIVE WeierstrassMul(_, _, _)
\* the group law behind `point * scalar`
WeierstrassMul(c, P, k) ==
    IF k = 0 THEN AffineIdentity
    ELSE WeierstrassAdd(c, P, WeierstrassMul(c, P, k - 1))

\* to_encoded_point(false).coordinates(): the identity has no coordinates
Weierstrass_coordinates(c, R) ==
    IF R.inf THEN Err("CurveError") ELSE Ok(Point_new(c, R.x, R.y))

(***************************************************************************)
(* Library points, Edwards.                                                *)
(***************************************************************************)
OnEdwards(x, y) ==
    Mod(y * y - x * x, field_modulus("Edwards25519"))
        = (1 + EdwardsD * x * x * y * y) % field_modulus("Edwards25519")

\* CompressedEdwardsY::from_slice: exactly 32 bytes
CompressedEdwardsY_from_slice(bytes) ==
    IF Len(bytes) # 1 THEN Err("CurveError") ELSE Ok(bytes[1])

\* CompressedEdwardsY::decompress: the block is y with the sign of x on top
decompress(block) ==
    Let((block \div EdwardsSignBit) % 2, LAMBDA sign :
    Let((block % EdwardsSignBit) % field_modulus("Edwards25519"), LAMBDA y :
    Let({x \in 0..(field_modulus("Edwards25519") - 1) : OnEdwards(x, y)},
        LAMBDA xs :
    IF xs = {} THEN Err("CurveError")
    ELSE IF \E x \in xs : x % 2 = sign
         THEN Ok([x |-> CHOOSE x \in xs : x % 2 = sign, y |-> y])
         ELSE Ok([x |-> CHOOSE x \in xs : TRUE, y |-> y]))))

\* the group law behind `a_point + b_point`
EdwardsAdd(P, Q) ==
    Let(field_modulus("Edwards25519"), LAMBDA p :
    Let((EdwardsD * P.x * Q.x * P.y * Q.y) % p, LAMBDA t :
    [x |-> ((P.x * Q.y + P.y * Q.x) * ModInverse((1 + t) % p, p)) % p,
     y |-> ((P.y * Q.y + P.x * Q.x) * ModInverse(Mod(1 - t, p), p)) % p]))

RECURSIVE EdwardsMul(_, _)
\* the group law behind `point * scalar`
EdwardsMul(P, k) ==
    IF k = 0 THEN [x |-> 0, y |-> 1] ELSE EdwardsAdd(P, EdwardsMul(P, k - 1))

(***************************************************************************)
(* curve/secp256k1.rs                                                      *)
(***************************************************************************)
Secp256k1_add_scalars(a, b) ==
    Bind(from_bytes_be("Secp256k1", a.value), LAMBDA a_scalar :
    Bind(from_bytes_be("Secp256k1", b.value), LAMBDA b_scalar :
    Ok(Scalar_new("Secp256k1", (a_scalar + b_scalar) % order("Secp256k1")))))

Secp256k1_mul_scalars(a, b) ==
    Bind(from_bytes_be("Secp256k1", a.value), LAMBDA a_scalar :
    Bind(from_bytes_be("Secp256k1", b.value), LAMBDA b_scalar :
    Ok(Scalar_new("Secp256k1", (a_scalar * b_scalar) % order("Secp256k1")))))

\* scalar.invert().unwrap_or(ZERO)
Secp256k1_invert_scalar(s) ==
    Bind(from_bytes_be("Secp256k1", s.value), LAMBDA scalar :
    Ok(Scalar_new("Secp256k1", ModInverse(scalar, order("Secp256k1")))))

\* decodes the 32-byte x coordinate p.x as a compressed point
Secp256k1_point_to_compressed(p) ==
    Bind(Affine_from_compressed_bytes("Secp256k1", <<p.x>>), LAMBDA affine :
    Ok(Affine_to_compressed(affine)))

Secp256k1_point_from_compressed(bytes) ==
    Bind(Affine_from_compressed_bytes("Secp256k1", bytes), LAMBDA affine :
    Weierstrass_coordinates("Secp256k1", affine))

\* decodes the x coordinates a.x and b.x as compressed points
Secp256k1_add_points(a, b) ==
    Bind(Affine_from_compressed_bytes("Secp256k1", <<a.x>>), LAMBDA a_affine :
    Bind(Affine_from_compressed_bytes("Secp256k1", <<b.x>>), LAMBDA b_affine :
    Weierstrass_coordinates("Secp256k1", WeierstrassAdd("Secp256k1", a_affine, b_affine))))

\* decodes the x coordinate p.x as a compressed point
Secp256k1_mul_point_scalar(p, s) ==
    Bind(Affine_from_compressed_bytes("Secp256k1", <<p.x>>), LAMBDA point :
    Bind(from_bytes_be("Secp256k1", s.value), LAMBDA scalar :
    Weierstrass_coordinates("Secp256k1", WeierstrassMul("Secp256k1", point, scalar))))

Secp256k1_scalar_from_bytes(bytes) ==
    Bind(from_bytes_be("Secp256k1", bytes), LAMBDA scalar :
    Ok(Scalar_new("Secp256k1", scalar)))

Secp256k1_scalar_from_u64(value) ==
    Ok(Scalar_new("Secp256k1", value % order("Secp256k1")))

\* ProjectivePoint::generator().to_affine(), uncompressed coordinates
Secp256k1_generator == Point_new("Secp256k1", 7, 5)

(***************************************************************************)
(* curve/p256.rs                                                           *)
(***************************************************************************)
P256_add_scalars(a, b) ==
    Bind(from_bytes_be("P256", a.value), LAMBDA a_scalar :
    Bind(from_bytes_be("P256", b.value), LAMBDA b_scalar :
    Ok(Scalar_new("P256", (a_scalar + b_scalar) % order("P256")))))

P256_mul_scalars(a, b) ==
    Bind(from_bytes_be("P256", a.value), LAMBDA a_scalar :
    Bind(from_bytes_be("P256", b.value), LAMBDA b_scalar :
    Ok(Scalar_new("P256", (a_scalar * b_scalar) % order("P256")))))

\* scalar.invert().unwrap_or(ZERO)
P256_invert_scalar(s) ==
    Bind(from_bytes_be("P256", s.value), LAMBDA scalar :
    Ok(Scalar_new("P256", ModInverse(scalar, order("P256")))))

\* decodes the 32-byte x coordinate p.x as a compressed point
P256_point_to_compressed(p) ==
    Bind(Affine_from_compressed_bytes("P256", <<p.x>>), LAMBDA affine :
    Ok(Affine_to_compressed(affine)))

P256_point_from_compressed(bytes) ==
    Bind(Affine_from_compressed_bytes("P256", bytes), LAMBDA affine :
    Weierstrass_coordinates("P256", affine))

\* decodes the x coordinates a.x and b.x as compressed points
P256_add_points(a, b) ==
    Bind(Affine_from_compressed_bytes("P256", <<a.x>>), LAMBDA a_affine :
    Bind(Affine_from_compressed_bytes("P256", <<b.x>>), LAMBDA b_affine :
    Weierstrass_coordinates("P256", WeierstrassAdd("P256", a_affine, b_affine))))

\* decodes the x coordinate p.x as a compressed point
P256_mul_point_scalar(p, s) ==
    Bind(Affine_from_compressed_bytes("P256", <<p.x>>), LAMBDA point :
    Bind(from_bytes_be("P256", s.value), LAMBDA scalar :
    Weierstrass_coordinates("P256", WeierstrassMul("P256", point, scalar))))

P256_scalar_from_bytes(bytes) ==
    Bind(from_bytes_be("P256", bytes), LAMBDA scalar :
    Ok(Scalar_new("P256", scalar)))

P256_scalar_from_u64(value) ==
    Ok(Scalar_new("P256", value % order("P256")))

\* ProjectivePoint::generator().to_affine(), uncompressed coordinates
P256_generator == Point_new("P256", 2, 1)

(***************************************************************************)
(* curve/ed25519.rs                                                        *)
(***************************************************************************)
Ed25519_add_scalars(a, b) ==
    Ok(Scalar_new("Edwards25519",
          (from_bytes_mod_order(a.value) + from_bytes_mod_order(b.value))
             % order("Edwards25519")))

Ed25519_mul_scalars(a, b) ==
    Ok(Scalar_new("Edwards25519",
          (from_bytes_mod_order(a.value) * from_bytes_mod_order(b.value))
             % order("Edwards25519")))

\* scalar.invert(): the inverse of zero is zero
Ed25519_invert_scalar(s) ==
    Ok(Scalar_new("Edwards25519",
          ModInverse(from_bytes_mod_order(s.value), order("Edwards25519"))))

\* returns the bytes of the x coordinate p.x as the compressed point
Ed25519_point_to_compressed(p) ==
    Bind(CompressedEdwardsY_from_slice(<<p.x>>), LAMBDA compressed :
    Ok(<<compressed>>))

Ed25519_point_from_compressed(bytes) ==
    Bind(CompressedEdwardsY_from_slice(bytes), LAMBDA compressed :
    Bind(decompress(compressed), LAMBDA point :
    Ok(Point_new("Edwards25519", point.x, point.y))))

Ed25519_bytes_to_edwards_point(bytes) ==
    Bind(CompressedEdwardsY_from_slice(bytes), LAMBDA compressed :
    decompress(compressed))

\* decompresses the x coordinates a.x and b.x as compressed points
Ed25519_add_points(a, b) ==
    Bind(Ed25519_bytes_to_edwards_point(<<a.x>>), LAMBDA a_point :
    Bind(Ed25519_bytes_to_edwards_point(<<b.x>>), LAMBDA b_point :
    Let(EdwardsAdd(a_point, b_point), LAMBDA result :
    Ok(Point_new("Edwards25519", result.x, result.y)))))

\* decompresses the x coordinate p.x as a compressed point
Ed25519_mul_point_scalar(p, s) ==
    Bind(Ed25519_bytes_to_edwards_point(<<p.x>>), LAMBDA point :
    Let(EdwardsMul(point, from_bytes_mod_order(s.value)), LAMBDA result :
    Ok(Point_new("Edwards25519", result.x, result.y))))

Ed25519_scalar_from_bytes(bytes) ==
    Ok(Scalar_new("Edwards25519", from_bytes_mod_order(bytes)))

Ed25519_scalar_from_u64(value) ==
    Ok(Scalar_new("Edwards25519", value % order("Edwards25519")))

\* ED25519_BASEPOINT_POINT
Ed25519_generator == Point_new("Edwards25519", 2, 22)

(***************************************************************************)
(* curve/mod.rs: dispatch on the curve tag.                                *)
(***************************************************************************)
\* Scalar::add that dispatches without comparing the curve tags
Scalar_add_unchecked(self, other) ==
    CASE self.curve_type = "Secp256k1" -> Secp256k1_add_scalars(self, other)
      [] self.curve_type = "P256" -> P256_add_scalars(self, other)
      [] self.curve_type = "Edwards25519" -> Ed25519_add_scalars(self, other)

Scalar_add(self, other) ==
    IF self.curve_type # other.curve_type THEN Err("CurveError")
    ELSE CASE self.curve_type = "Secp256k1" -> Secp256k1_add_scalars(self, other)
           [] self.curve_type = "P256" -> P256_add_scalars(self, other)
           [] self.curve_type = "Edwards25519" -> Ed25519_add_scalars(self, other)

Scalar_mul(self, other) ==
    IF self.curve_type # other.curve_type THEN Err("CurveError")
    ELSE CASE self.curve_type = "Secp256k1" -> Secp256k1_mul_scalars(self, other)
           [] self.curve_type = "P256" -> P256_mul_scalars(self, other)
           [] self.curve_type = "Edwards25519" -> Ed25519_mul_scalars(self, other)

Scalar_invert(self) ==
    CASE self.curve_type = "Secp256k1" -> Secp256k1_invert_scalar(self)
      [] self.curve_type = "P256" -> P256_invert_scalar(self)
      [] self.curve_type = "Edwards25519" -> Ed25519_invert_scalar(self)

Point_to_compressed_bytes(self) ==
    CASE self.curve_type = "Secp256k1" -> Secp256k1_point_to_compressed(self)
      [] self.curve_type = "P256" -> P256_point_to_compressed(self)
      [] self.curve_type = "Edwards25519" -> Ed25519_point_to_compressed(self)

Point_from_compressed_bytes(c, bytes) ==
    CASE c = "Secp256k1" -> Secp256k1_point_from_compressed(bytes)
      [] c = "P256" -> P256_point_from_compressed(bytes)
      [] c = "Edwards25519" -> Ed25519_point_from_compressed(bytes)

Point_add(self, other) ==
    IF self.curve_type # other.curve_type THEN Err("CurveError")
    ELSE CASE self.curve_type = "Secp256k1" -> Secp256k1_add_points(self, other)
           [] self.curve_type = "P256" -> P256_add_points(self, other)
           [] self.curve_type = "Edwards25519" -> Ed25519_add_points(self, other)

Point_mul(self, scalar) ==
    IF self.curve_type # scalar.curve_type THEN Err("CurveError")
    ELSE CASE self.curve_type = "Secp256k1" -> Secp256k1_mul_point_scalar(self, scalar)
           [] self.curve_type = "P256" -> P256_mul_point_scalar(self, scalar)
           [] self.curve_type = "Edwards25519" -> Ed25519_mul_point_scalar(self, scalar)

(***************************************************************************)
(* create_curve(c) followed by a call of the Curve trait.                  *)
(***************************************************************************)
scalar_from_bytes(c, bytes) ==
    CASE c = "Secp256k1" -> Secp256k1_scalar_from_bytes(bytes)
      [] c = "P256" -> P256_scalar_from_bytes(bytes)
      [] c = "Edwards25519" -> Ed25519_scalar_from_bytes(bytes)

scalar_from_u64(c, value) ==
    CASE c = "Secp256k1" -> Secp256k1_scalar_from_u64(value)
      [] c = "P256" -> P256_scalar_from_u64(value)
      [] c = "Edwards25519" -> Ed25519_scalar_from_u64(value)

generator(c) ==
    CASE c = "Secp256k1" -> Secp256k1_generator
      [] c = "P256" -> P256_generator
      [] c = "Edwards25519" -> Ed25519_generator

\* every canonical scalar of a curve
Scalars(c) == {Scalar_new(c, v) : v \in 0..(order(c) - 1)}

\* the values random_scalar returns in the exploration
RandomValues == {1, 5}

RandomScalars(c) == {Scalar_new(c, v) : v \in RandomValues}


(***************************************************************************)
(* Rust's Option.                                                          *)
(***************************************************************************)
None == [some |-> FALSE]

Some(v) == [v |-> v, some |-> TRUE]

(***************************************************************************)
(* laurent.rs                                                              *)
(***************************************************************************)
SharingParams(c, threshold, participants) ==
    [curve_type |-> c, threshold |-> threshold, participants |-> participants]

\* Share::new
Share_new(id, value) ==
    [value |-> value, id |-> id, commitment |-> None, proof |-> None]

\* LaurentSeries::new; a and b are the 2 * threshold draws of random_scalar.
\* The parameters are stored as they come.
LaurentSeries_new(params, a, b) ==
    Ok([curve_type |-> params.curve_type,
        threshold |-> params.threshold,
        participants |-> params.participants,
        a_coeffs |-> a,
        b_coeffs |-> b])

RECURSIVE positive_power_loop(_, _, _)
\* `for _ in 1..exponent { result = result.mul(base)? }`, n rounds left
positive_power_loop(result, base, n) ==
    IF n = 0 THEN Ok(result)
    ELSE Bind(Scalar_mul(result, base), LAMBDA next :
         positive_power_loop(next, base, n - 1))

positive_power_scalar(base, exponent, c) ==
    IF exponent = 0 THEN scalar_from_u64(c, 1)
    ELSE positive_power_loop(base, base, exponent - 1)

\* a power that forgets the inversion of a negative exponent
power_scalar_without_inverse(base, exponent, c) ==
    IF exponent >= 0 THEN positive_power_scalar(base, exponent, c)
    ELSE positive_power_scalar(base, 0 - exponent, c)

power_scalar(base, exponent, c) ==
    IF exponent >= 0 THEN positive_power_scalar(base, exponent, c)
    ELSE Bind(positive_power_scalar(base, 0 - exponent, c),
              LAMBDA positive_power : Scalar_invert(positive_power))

RECURSIVE share_a_loop(_, _, _, _)
\* `for (k, a_k) in self.a_coeffs.iter().enumerate()`, from index k on
share_a_loop(self, z, k, share_value) ==
    IF k >= Len(self.a_coeffs) THEN Ok(share_value)
    ELSE Bind(power_scalar(z, k, self.curve_type), LAMBDA z_k :
         Bind(Scalar_mul(self.a_coeffs[k + 1], z_k), LAMBDA term :
         Bind(Scalar_add(share_value, term), LAMBDA sum :
         share_a_loop(self, z, k + 1, sum))))

RECURSIVE share_b_loop(_, _, _, _)
\* `for (k, b_neg_k) in self.b_coeffs.iter().enumerate()`, from index k on
share_b_loop(self, z, k, share_value) ==
    IF k >= Len(self.b_coeffs) THEN Ok(share_value)
    ELSE Bind(power_scalar(z, 0 - (k + 1), self.curve_type), LAMBDA z_neg_k :
         Bind(Scalar_mul(self.b_coeffs[k + 1], z_neg_k), LAMBDA term :
         Bind(Scalar_add(share_value, term), LAMBDA sum :
         share_b_loop(self, z, k + 1, sum))))

generate_share_for_participant(self, id) ==
    Bind(scalar_from_u64(self.curve_type, id), LAMBDA z :
    Bind(scalar_from_u64(self.curve_type, 0), LAMBDA zero :
    Bind(share_a_loop(self, z, 0, zero), LAMBDA after_a :
    Bind(share_b_loop(self, z, 0, after_a), LAMBDA share_value :
    Ok(Share_new(id, share_value.value))))))

RECURSIVE generate_shares_loop(_, _, _)
\* `for i in 1..=self.participants`, from i on
generate_shares_loop(self, i, shares) ==
    IF i > self.participants THEN Ok(shares)
    ELSE Bind(generate_share_for_participant(self, i), LAMBDA share :
         generate_shares_loop(self, i + 1, Append(shares, share)))

generate_shares(self) == generate_shares_loop(self, 1, <<>>)

RECURSIVE reconstruct_loop_all(_, _, _, _, _)
\* the loop of reconstruct_secret without `.take(self.threshold)`
reconstruct_loop_all(self, shares, j, secret, participants_used) ==
    IF j > Len(shares)
    THEN Ok([secret |-> secret.value,
             participants_used |-> participants_used,
             valid |-> TRUE])
    ELSE Bind(scalar_from_bytes(self.curve_type, shares[j].value),
              LAMBDA share_scalar :
         Bind(Scalar_add(secret, share_scalar), LAMBDA sum :
         reconstruct_loop_all(self, shares, j + 1, sum,
                              Append(participants_used, shares[j].id))))

RECURSIVE reconstruct_loop(_, _, _, _, _)
\* `for share in shares.iter().take(self.threshold)`, from position j on
reconstruct_loop(self, shares, j, secret, participants_used) ==
    IF j > self.threshold \/ j > Len(shares)
    THEN Ok([secret |-> secret.value,
             participants_used |-> participants_used,
             valid |-> TRUE])
    ELSE Bind(scalar_from_bytes(self.curve_type, shares[j].value),
              LAMBDA share_scalar :
         Bind(Scalar_add(secret, share_scalar), LAMBDA sum :
         reconstruct_loop(self, shares, j + 1, sum,
                          Append(participants_used, shares[j].id))))

\* a guard that refuses only the empty list
insufficient_only_empty(self, shares) == Len(shares) = 0 /\ 0 < self.threshold

\* `shares.len() < self.threshold`
insufficient(self, shares) == Len(shares) < self.threshold

reconstruct_secret(self, shares) ==
    IF insufficient(self, shares)
    THEN [ok |-> FALSE, err |-> "InsufficientShares",
          required |-> self.threshold, got |-> Len(shares)]
    ELSE Bind(scalar_from_u64(self.curve_type, 0), LAMBDA zero :
         reconstruct_loop(self, shares, 1, zero, <<>>))

RECURSIVE secret_key_loop(_, _, _)
\* `for b_coeff in &self.b_coeffs`, from position k on
secret_key_loop(self, k, secret) ==
    IF k > Len(self.b_coeffs) THEN Ok(secret)
    ELSE Bind(Scalar_add(secret, self.b_coeffs[k]), LAMBDA sum :
         secret_key_loop(self, k + 1, sum))

get_secret_key(self) ==
    Bind(scalar_from_u64(self.curve_type, 0), LAMBDA zero :
    secret_key_loop(self, 1, zero))

\* a check that looks at the id only
verify_share_id_only(self, share) ==
    Bind(generate_share_for_participant(self, share.id), LAMBDA expected_share :
    Ok(share.id = expected_share.id))

\* LaurentSeries::verify_share
verify_share(self, share) ==
    Bind(generate_share_for_participant(self, share.id), LAMBDA expected_share :
    Ok(share.value = expected_share.value))

\* a validation that looks at the threshold only
validate_params_threshold_only(params) ==
    IF params.threshold < 2 THEN Err("InvalidInput") ELSE Ok(TRUE)

\* laurent::utils::validate_params
validate_params(params) ==
    IF params.threshold < 2 THEN Err("InvalidInput")
    ELSE IF params.participants < params.threshold THEN Err("InvalidInput")
    ELSE Ok(TRUE)

(***************************************************************************)
(* pedersen.rs.  Every draw of the random generator is a parameter.        *)
(***************************************************************************)
\* PedersenCommitment::new; h_scalar is the draw of random_scalar
PedersenCommitment_new(c, h_scalar) ==
    Bind(Point_mul(generator(c), h_scalar), LAMBDA h :
    Ok([curve_type |-> c, h |-> h, g |-> generator(c)]))

\* PedersenCommitment::commit
commit(self, value, randomness) ==
    Bind(scalar_from_bytes(self.curve_type, randomness), LAMBDA r :
    Bind(Point_mul(self.g, value), LAMBDA g_value :
    Bind(Point_mul(self.h, r), LAMBDA h_r :
    Bind(Point_add(g_value, h_r), LAMBDA commitment_point :
    Point_to_compressed_bytes(commitment_point)))))

\* PedersenCommitment::commit_share; randomness is the 32 bytes it draws
commit_share(self, share, randomness) ==
    Bind(scalar_from_bytes(self.curve_type, share.value), LAMBDA value :
    commit(self, value, randomness))

\* PedersenCommitment::verify
PedersenCommitment_verify(self, commitment, value, randomness) ==
    Bind(scalar_from_bytes(self.curve_type, randomness), LAMBDA r :
    Bind(Point_mul(self.g, value), LAMBDA g_value :
    Bind(Point_mul(self.h, r), LAMBDA h_r :
    Bind(Point_add(g_value, h_r), LAMBDA computed_commitment :
    Bind(Point_to_compressed_bytes(computed_commitment), LAMBDA computed_bytes :
    Ok(commitment = computed_bytes))))))

\* PedersenCommitment::verify_share_commitment
verify_share_commitment(self, share, commitment, randomness) ==
    Bind(scalar_from_bytes(self.curve_type, share.value), LAMBDA value :
    PedersenCommitment_verify(self, commitment, value, randomness))

\* CommittedShare::new
CommittedShare_new(share, commitment, randomness) ==
    [commitment |-> commitment,
     proof |-> None,
     share |-> share,
     randomness |-> randomness]

\* CommittedShare::verify; h_scalar is the draw of the parameters it builds
CommittedShare_verify(self, c, h_scalar) ==
    Bind(PedersenCommitment_new(c, h_scalar), LAMBDA pedersen :
    verify_share_commitment(pedersen, self.share, self.commitment,
                            self.randomness))

RECURSIVE commit_all_loop(_, _, _, _, _, _)
\* `for share in shares`, from position i on: generated[i] is the result of
\* generate_randomness, used[i] the randomness drawn inside commit_share
commit_all_loop(pedersen, shares, generated, used, i, committed_shares) ==
    IF i > Len(shares) THEN Ok(committed_shares)
    ELSE Bind(commit_share(pedersen, shares[i], used[i]), LAMBDA commitment :
         commit_all_loop(pedersen, shares, generated, used, i + 1,
             Append(committed_shares,
                    CommittedShare_new(shares[i], commitment, generated[i]))))

\* the 32-byte strings `rng.gen()` returns in the exploration; 7 is not
\* below any group order
RandomBlocks == {3, 7}

\* an operation that draws: an Err is the only result, an Ok hands its value
\* on to the results that follow
BindSet(r, F(_)) == IF r.ok THEN F(r.v) ELSE {r}

\* pedersen::utils::commit_all_shares: the results it can return.  A draw
\* the code does not reach is not made.
commit_all_shares(shares, c) ==
    UNION {
      BindSet(PedersenCommitment_new(c, h_scalar), LAMBDA pedersen :
        {commit_all_loop(pedersen, shares, generated, used, 1, <<>>) :
           generated \in [1..Len(shares) -> RandomBlocks],
           used \in [1..Len(shares) -> RandomBlocks]})
      : h_scalar \in RandomScalars(c) }

RECURSIVE verify_all_loop(_, _, _, _)
\* `for committed_share in committed_shares`, from position i on
verify_all_loop(committed_shares, c, h_scalars, i) ==
    IF i > Len(committed_shares) THEN Ok(TRUE)
    ELSE Bind(CommittedShare_verify(committed_shares[i], c, h_scalars[i]),
              LAMBDA valid :
         IF ~valid THEN Ok(FALSE)
         ELSE verify_all_loop(committed_shares, c, h_scalars, i + 1))

\* pedersen::utils::verify_all_committed_shares: the results it can return;
\* h_scalars[i] is the draw of the parameters built for the i-th element
verify_all_committed_shares(committed_shares, c) ==
    {verify_all_loop(committed_shares, c, h_scalars, 1) :
       h_scalars \in [1..Len(committed_shares) -> RandomScalars(c)]}

(***************************************************************************)
(* zkp.rs                                                                  *)
(***************************************************************************)
\* the digest of SHA-256 is one block below DigestRange
DigestRange == 8

RECURSIVE Sha256Fold(_, _, _)
Sha256Fold(input, i, acc) ==
    IF i > Len(input) THEN acc
    ELSE Sha256Fold(input, i + 1, (acc * 5 + input[i] + 3) % DigestRange)

\* Sha256::new().update(input).finalize(): a fixed function of the input
Sha256(input) == Sha256Fold(input, 1, 1)

\* the domain tags b"z-mpc-zkp" and b"z-mpc-schnorr" as blocks
ZkpTag == 101

SchnorrTag == 102

ZeroKnowledgeProof_new(c) ==
    [curve_type |-> c, commitment |-> <<>>, challenge |-> <<>>,
     response |-> <<>>, public_point |-> <<>>]

create_challenge_input(self, commitment, public_point) ==
    <<ZkpTag, CurveTypeToString(self.curve_type)>> \o commitment \o public_point

hash_to_scalar(c, input) == scalar_from_bytes(c, Sha256(input))

\* the slice handed to scalar_from_bytes must be one 32-byte block
scalar_from_slice(c, bytes) ==
    IF Len(bytes) # 1 THEN Err("CurveError") ELSE scalar_from_bytes(c, bytes[1])

\* ZeroKnowledgeProof::prove; alpha and beta are the draws of random_scalar.
\* Ok carries the proof as prove leaves it.
prove(self, pedersen, value, randomness, alpha, beta) ==
    Bind(commit(pedersen, value, randomness), LAMBDA commitment :
    Bind(Point_mul(pedersen.g, alpha), LAMBDA g_alpha :
    Bind(Point_mul(pedersen.h, beta), LAMBDA h_beta :
    Bind(Point_add(g_alpha, h_beta), LAMBDA public_point :
    Bind(Point_to_compressed_bytes(public_point), LAMBDA public_bytes :
    Bind(hash_to_scalar(self.curve_type,
             create_challenge_input(self, commitment, public_bytes)),
         LAMBDA challenge :
    Bind(scalar_from_bytes(self.curve_type, challenge.value), LAMBDA c :
    Bind(Scalar_mul(c, value), LAMBDA c_x :
    Bind(Scalar_add(alpha, c_x), LAMBDA s1 :
    Bind(scalar_from_bytes(self.curve_type, randomness), LAMBDA r :
    Bind(Scalar_mul(c, r), LAMBDA c_r :
    Bind(Scalar_add(beta, c_r), LAMBDA s2 :
    Ok([curve_type |-> self.curve_type,
        commitment |-> commitment,
        challenge |-> <<challenge.value>>,
        response |-> <<s1.value, s2.value>>,
        public_point |-> public_bytes])))))))))))))

\* ZeroKnowledgeProof::verify
ZeroKnowledgeProof_verify(self, pedersen) ==
    IF Len(self.response) < 2 THEN Err("ZKProofError")
    ELSE
    Bind(scalar_from_bytes(self.curve_type, self.response[1]), LAMBDA s1 :
    Bind(scalar_from_bytes(self.curve_type, self.response[2]), LAMBDA s2 :
    Bind(scalar_from_slice(self.curve_type, self.challenge), LAMBDA c :
    Bind(Point_mul(pedersen.g, s1), LAMBDA g_s1 :
    Bind(Point_mul(pedersen.h, s2), LAMBDA h_s2 :
    Bind(Point_add(g_s1, h_s2), LAMBDA temp :
    Bind(Point_from_compressed_bytes(self.curve_type, self.commitment),
         LAMBDA commitment_point :
    Bind(Scalar_invert(c), LAMBDA c_neg :
    Bind(Point_mul(commitment_point, c_neg), LAMBDA commitment_c :
    Bind(Point_add(temp, commitment_c), LAMBDA computed_public :
    Bind(Point_to_compressed_bytes(computed_public), LAMBDA computed_bytes :
    Ok(computed_bytes = self.public_point))))))))))))

\* ZeroKnowledgeProof::prove_share
prove_share(self, pedersen, share, randomness, alpha, beta) ==
    Bind(scalar_from_bytes(self.curve_type, share.value), LAMBDA value :
    prove(self, pedersen, value, randomness, alpha, beta))

\* zkp::utils::prove_committed_share
prove_committed_share(pedersen, share, randomness, c, alpha, beta) ==
    prove_share(ZeroKnowledgeProof_new(c), pedersen, share, randomness, alpha, beta)

SchnorrSignature_new(c) ==
    [curve_type |-> c, challenge |-> <<>>, response |-> <<>>, public_key |-> <<>>]

create_schnorr_challenge_input(self, r, public_key, message) ==
    <<SchnorrTag, CurveTypeToString(self.curve_type)>> \o r \o public_key \o message

\* SchnorrSignature::sign; k is the draw of random_scalar.
\* Ok carries the signature as sign leaves it.
sign(self, message, private_key, k) ==
    Bind(Point_mul(generator(self.curve_type), k), LAMBDA r_point :
    Bind(Point_to_compressed_bytes(r_point), LAMBDA r_bytes :
    Bind(Point_mul(generator(self.curve_type), private_key), LAMBDA public_key :
    Bind(Point_to_compressed_bytes(public_key), LAMBDA public_key_bytes :
    Bind(hash_to_scalar(self.curve_type,
             create_schnorr_challenge_input(self, r_bytes, public_key_bytes,
                                            message)),
         LAMBDA challenge :
    Bind(scalar_from_bytes(self.curve_type, challenge.value), LAMBDA c :
    Bind(Scalar_mul(c, private_key), LAMBDA c_sk :
    Bind(Scalar_add(k, c_sk), LAMBDA s :
    Ok([curve_type |-> self.curve_type,
        challenge |-> <<challenge.value>>,
        response |-> <<s.value>>,
        public_key |-> public_key_bytes])))))))))

\* SchnorrSignature::verify
SchnorrSignature_verify(self, message) ==
    Bind(scalar_from_slice(self.curve_type, self.response), LAMBDA s :
    Bind(scalar_from_slice(self.curve_type, self.challenge), LAMBDA c :
    Bind(Point_from_compressed_bytes(self.curve_type, self.public_key),
         LAMBDA public_key :
    Bind(Point_mul(generator(self.curve_type), s), LAMBDA s_g :
    Bind(Point_mul(public_key, c), LAMBDA c_p :
    Bind(Scalar_invert(c), LAMBDA c_neg :
    Bind(Point_mul(public_key, c_neg), LAMBDA c_neg_p :
    Bind(Point_add(s_g, c_neg_p), LAMBDA r_prime :
    Bind(Point_to_compressed_bytes(r_prime), LAMBDA r_prime_bytes :
    Bind(hash_to_scalar(self.curve_type,
             create_schnorr_challenge_input(self, r_prime_bytes,
                                            self.public_key, message)),
         LAMBDA computed_challenge :
    Ok(<<computed_challenge.value>> = self.challenge)))))))))))

(***************************************************************************)
(* network.rs.  An operation that draws random values is the set of the    *)
(* results it can return; a draw the code never reaches is not made.       *)
(***************************************************************************)
\* NetworkMessage::ShareDistribution
ShareDistribution(sender_id, shares, commitments, proofs, c) ==
    [curve_type |-> c,
     shares |-> shares,
     sender_id |-> sender_id,
     commitments |-> commitments,
     proofs |-> proofs,
     type |-> "ShareDistribution"]

RECURSIVE verify_commitments_loop(_, _, _, _)
\* `for committed_share in &commitments`, from position i on
verify_commitments_loop(commitments, c, h_scalars, i) ==
    IF i > Len(commitments) THEN Ok(TRUE)
    ELSE Bind(CommittedShare_verify(commitments[i], c, h_scalars[i]),
              LAMBDA valid :
         IF ~valid THEN Err("CommitmentError")
         ELSE verify_commitments_loop(commitments, c, h_scalars, i + 1))

RECURSIVE verify_proofs_loop(_, _, _)
\* `for proof in &proofs`, from position i on
verify_proofs_loop(proofs, pedersen, i) ==
    IF i > Len(proofs) THEN Ok(TRUE)
    ELSE Bind(ZeroKnowledgeProof_verify(proofs[i], pedersen), LAMBDA valid :
         IF ~valid THEN Err("ZKProofError")
         ELSE verify_proofs_loop(proofs, pedersen, i + 1))

\* NetworkNode::handle_share_distribution
handle_share_distribution(sender_id, shares, commitments, proofs, c) ==
    UNION {
      BindSet(PedersenCommitment_new(c, h_scalar), LAMBDA pedersen :
        {Bind(verify_commitments_loop(commitments, c, h_scalars, 1),
              LAMBDA committed : verify_proofs_loop(proofs, pedersen, 1))
         : h_scalars \in [1..Len(commitments) -> RandomScalars(c)]})
      : h_scalar \in RandomScalars(c) }

\* verify_share_distribution, behind the HTTP route /shares
verify_share_distribution(commitments, proofs, c) ==
    UNION {
      BindSet(PedersenCommitment_new(c, h_scalar), LAMBDA pedersen :
        {Bind(verify_commitments_loop(commitments, c, h_scalars, 1),
              LAMBDA committed : verify_proofs_loop(proofs, pedersen, 1))
         : h_scalars \in [1..Len(commitments) -> RandomScalars(c)]})
      : h_scalar \in RandomScalars(c) }

RECURSIVE prove_all_loop(_, _, _, _, _, _, _)
\* `for (share, committed_share) in shares.iter().zip(committed_shares.iter())`
prove_all_loop(pedersen, shares, committed_shares, c, alphas, betas, proofs) ==
    IF Len(proofs) >= Len(shares) \/ Len(proofs) >= Len(committed_shares)
    THEN Ok(proofs)
    ELSE Bind(prove_committed_share(pedersen, shares[Len(proofs) + 1],
                  committed_shares[Len(proofs) + 1].randomness, c,
                  alphas[Len(proofs) + 1], betas[Len(proofs) + 1]),
              LAMBDA proof :
         prove_all_loop(pedersen, shares, committed_shares, c, alphas, betas,
                        Append(proofs, proof)))

\* the part of distribute_shares after `self.pedersen.as_ref().unwrap()`
distribute_shares_commit(pedersen, shares, c, node_id) ==
    UNION {
      BindSet(committed, LAMBDA committed_shares :
        {Bind(prove_all_loop(pedersen, shares, committed_shares, c,
                             alphas, betas, <<>>),
              LAMBDA proofs :
              Ok(ShareDistribution(node_id, shares, committed_shares, proofs, c)))
         : alphas \in [1..Len(shares) -> RandomScalars(c)],
           betas \in [1..Len(shares) -> RandomScalars(c)]})
      : committed \in commit_all_shares(shares, c) }

\* NetworkCoordinator::distribute_shares on the fields (laurent_series,
\* pedersen) of a coordinator whose node has the given id: Ok carries the
\* message handed to broadcast
distribute_shares(self_laurent_series, self_pedersen, node_id) ==
    IF ~self_laurent_series.some THEN {Err("InvalidInput")}
    ELSE BindSet(generate_shares(self_laurent_series.v), LAMBDA shares :
         IF ~self_pedersen.some THEN {Err("panic")}
         ELSE distribute_shares_commit(self_pedersen.v, shares,
                  self_laurent_series.v.curve_type, node_id))

\* NetworkNode::handle_commitment_verification of the node self_id: the
\* results it can return; Ok carries the message handed to send_to
handle_commitment_verification(self_id, sender_id, commitment, value, randomness, c) ==
    {Bind(PedersenCommitment_new(c, h_scalar), LAMBDA pedersen :
     Bind(scalar_from_bytes(c, value), LAMBDA value_scalar :
     Bind(PedersenCommitment_verify(pedersen, commitment, value_scalar,
                                    randomness), LAMBDA is_valid :
     Ok([commitment |-> commitment,
         sender_id |-> self_id,
         type |-> "CommitmentVerificationResponse",
         is_valid |-> is_valid]))))
     : h_scalar \in RandomScalars(c)}

\* NetworkNode::handle_proof_verification of the node self_id
handle_proof_verification(self_id, sender_id, proof) ==
    {Bind(PedersenCommitment_new(proof.curve_type, h_scalar), LAMBDA pedersen :
     Bind(ZeroKnowledgeProof_verify(proof, pedersen), LAMBDA is_valid :
     Ok([sender_id |-> self_id,
         type |-> "ProofVerificationResponse",
         is_valid |-> is_valid,
         proof_commitment |-> proof.commitment])))
     : h_scalar \in RandomScalars(proof.curve_type)}

\* NetworkNode::handle_secret_reconstruction of the node self_id; the
\* series it builds draws 2 * shares.len() coefficients
handle_secret_reconstruction(self_id, sender_id, shares, c) ==
    {Bind(LaurentSeries_new(SharingParams(c, Len(shares), Len(shares)), a, b),
          LAMBDA laurent :
     Bind(reconstruct_secret(laurent, shares), LAMBDA result :
     Ok([secret |-> result.secret,
         participants_used |-> result.participants_used,
         sender_id |-> self_id,
         type |-> "SecretReconstructionResponse",
         is_valid |-> result.valid])))
     : a \in [1..Len(shares) -> RandomScalars(c)],
       b \in [1..Len(shares) -> RandomScalars(c)]}

\* a heartbeat handler that enters a sender it does not know into the table
handle_heartbeat_inserting(table, sender_id, timestamp) ==
    [i \in DOMAIN table \cup {sender_id} |->
       IF i = sender_id
       THEN [id |-> sender_id, is_online |-> TRUE, last_heartbeat |-> timestamp]
       ELSE table[i]]

\* NetworkNode::handle_heartbeat on the participant table: the table it
\* leaves (`if let Some(participant) = participants.get_mut(&sender_id)`)
handle_heartbeat(table, sender_id, timestamp) ==
    IF sender_id \in DOMAIN table
    THEN [table EXCEPT ![sender_id] =
            [@ EXCEPT !.is_online = TRUE, !.last_heartbeat = timestamp]]
    ELSE table

\* an arm that treats a message without a handler as a failure
unhandled_refused(table, message) ==
    {[result |-> Err("InvalidInput"), participants |-> table, sent_to |-> <<>>]}

\* the arm `_ =>` of process_message: a warning is logged, nothing else
unhandled(table, message) ==
    {[result |-> Ok(TRUE), participants |-> table, sent_to |-> <<>>]}

\* NetworkNode::process_message of the node self_id holding the table: the
\* outcomes it can have, each the Result returned, the table left and the
\* messages handed to send_to
process_message(self_id, table, message) ==
    IF message.type = "ShareDistribution"
    THEN {[result |-> r, participants |-> table, sent_to |-> <<>>] :
            r \in handle_share_distribution(message.sender_id, message.shares,
                     message.commitments, message.proofs, message.curve_type)}
    ELSE IF message.type = "CommitmentVerification"
    THEN {[result |-> IF r.ok THEN Ok(TRUE) ELSE r, participants |-> table,
           sent_to |-> IF r.ok THEN <<r.v>> ELSE <<>>] :
            r \in handle_commitment_verification(self_id, message.sender_id,
                     message.commitment, message.value, message.randomness,
                     message.curve_type)}
    ELSE IF message.type = "ProofVerification"
    THEN {[result |-> IF r.ok THEN Ok(TRUE) ELSE r, participants |-> table,
           sent_to |-> IF r.ok THEN <<r.v>> ELSE <<>>] :
            r \in handle_proof_verification(self_id, message.sender_id,
                                            message.proof)}
    ELSE IF message.type = "SecretReconstruction"
    THEN {[result |-> IF r.ok THEN Ok(TRUE) ELSE r, participants |-> table,
           sent_to |-> IF r.ok THEN <<r.v>> ELSE <<>>] :
            r \in handle_secret_reconstruction(self_id, message.sender_id,
                     message.shares, message.curve_type)}
    ELSE IF message.type = "Heartbeat"
    THEN {[result |-> Ok(TRUE),
           participants |-> handle_heartbeat(table, message.sender_id,
                                             message.timestamp),
           sent_to |-> <<>>]}
    ELSE unhandled(table, message)

\* the HTTP route /heartbeat on the shared table: the status it answers
\* with and the table it leaves
receive_heartbeat(table, message) ==
    IF message.type = "Heartbeat"
    THEN [result |-> Ok(TRUE),
          participants |-> handle_heartbeat(table, message.sender_id,
                                            message.timestamp)]
    ELSE [result |-> Err("BAD_REQUEST"), participants |-> table]

(***************************************************************************)
(* The state.                                                              *)
(***************************************************************************)
VARIABLES
    laurent_series,  \* NetworkCoordinator.laurent_series
    pedersen,        \* NetworkCoordinator.pedersen
    sent,            \* the messages the coordinator handed to broadcast
    series,          \* a LaurentSeries held by a dealer
    ret,             \* the last call: its name, its arguments, its result
    participants,    \* NetworkNode.participants: ShareId -> Participant
    channel,         \* every message sent on NetworkNode.message_sender
    received,        \* how many of them run has taken from message_receiver
    run_pc           \* NetworkCoordinator::run: "recv" or "returned"

\* the node of the coordinator: its table, its channel and its run loop
node == <<participants, channel, received, run_pc>>

vars == <<laurent_series, pedersen, sent, series, ret, node>>

NoCall == [op |-> "none"]

\* draws of LaurentSeries::new for a threshold
CoeffDraws(c, threshold) == [1..threshold -> RandomScalars(c)]

\* the process-wide generator as a seeded stream: its k-th draw
RandomStream(c, seed, k) ==
    Scalar_new(c, IF (seed + k) % 2 = 0 THEN 1 ELSE 5)

Seeds == {0, 1}

\* the parameters a caller may pass: LaurentSeries::new checks none of them
ParamsOffered ==
    {SharingParams(c, t, n) : c \in CurveType, t \in 0..MaxThreshold,
                              n \in 0..MaxParticipants}

\* EdwardsPoint::compress / to_encoded_point(true): the canonical encoding
compress(c, x, y) ==
    IF c = "Edwards25519" THEN <<y + EdwardsSignBit * (x % 2)>>
    ELSE <<2 + (y % 2), x>>

\* messages a peer may put on the wire: an empty distribution, and one that
\* carries a share, its committed share and a proof over encodable points
PeerDistributions ==
    UNION {
      LET G == generator(c)
          enc == compress(c, G.x, G.y)
          share == Share_new(1, 1)
      IN { ShareDistribution(2, <<>>, <<>>, <<>>, c),
           ShareDistribution(2, <<share>>,
               <<CommittedShare_new(share, enc, 3)>>,
               <<[curve_type |-> c, commitment |-> enc, challenge |-> <<1>>,
                  response |-> <<1, 1>>, public_point |-> enc]>>, c) }
      : c \in CurveType }

(***************************************************************************)
(* The coordinator and a receiving node.                                   *)
(***************************************************************************)
Init ==
    /\ laurent_series = None
    /\ pedersen = None
    /\ sent = <<>>
    /\ series = None
    /\ ret = NoCall
    /\ participants = <<>>
    /\ channel = <<>>
    /\ received = 0
    /\ run_pc = "recv"

\* NetworkCoordinator::initialize_protocol: the first assignment is made
\* before the second constructor runs
InitializeProtocol ==
    \E params \in ParamsOffered, seed \in Seeds :
      \E built \in {LaurentSeries_new(params,
                        [k \in 1..params.threshold |->
                           RandomStream(params.curve_type, seed, k)],
                        [k \in 1..params.threshold |->
                           RandomStream(params.curve_type, seed,
                                        params.threshold + k)])},
         fresh \in {PedersenCommitment_new(params.curve_type,
                        RandomStream(params.curve_type, seed,
                                     2 * params.threshold + 1))} :
        /\ laurent_series' = IF built.ok THEN Some(built.v) ELSE laurent_series
        /\ pedersen' = IF built.ok /\ fresh.ok THEN Some(fresh.v) ELSE pedersen
        /\ ret' = [result |-> IF ~built.ok THEN built
                              ELSE IF ~fresh.ok THEN fresh ELSE Ok(TRUE),
                   params |-> params,
                   op |-> "initialize_protocol"]
        /\ UNCHANGED <<sent, series, node>>

\* NetworkCoordinator::distribute_shares, dealer node 1
DistributeShares ==
    \E result \in distribute_shares(laurent_series, pedersen, 1) :
      /\ sent' = IF result.ok THEN Append(sent, result.v) ELSE sent
      /\ ret' = [result |-> result,
                 op |-> "distribute_shares",
                 initialised |-> laurent_series.some]
      /\ UNCHANGED <<laurent_series, pedersen, series, node>>

\* the messages that can reach a node
Deliverable == {sent[i] : i \in 1..Len(sent)} \cup PeerDistributions

\* NetworkNode::process_message on a ShareDistribution
HandleShareDistribution ==
    \E message \in Deliverable :
      \E result \in handle_share_distribution(message.sender_id, message.shares,
                        message.commitments, message.proofs, message.curve_type) :
        /\ ret' = [result |-> result,
                   message |-> message,
                   sent_to |-> <<>>,
                   op |-> "handle_share_distribution"]
        /\ UNCHANGED <<laurent_series, pedersen, sent, series, node>>

\* the HTTP route /shares on a ShareDistribution
ReceiveShares ==
    \E message \in Deliverable :
      \E result \in verify_share_distribution(message.commitments, message.proofs,
                                              message.curve_type) :
        /\ ret' = [result |-> result, message |-> message, op |-> "receive_shares"]
        /\ UNCHANGED <<laurent_series, pedersen, sent, series, node>>

\* requests a peer may put on the wire: reconstruction over up to MaxShares
\* shares, one of a canonical value and one of the group order itself; a
\* commitment to check; a proof to check
PeerRequests ==
    UNION {
      {[curve_type |-> c, shares |-> shares, sender_id |-> 2,
        type |-> "SecretReconstruction"] :
         shares \in UNION {[1..k -> {Share_new(2, order(c) - 1),
                                     Share_new(1, order(c))}]
                           : k \in 0..MaxShares}}
      \cup
      {[value |-> value, curve_type |-> c, commitment |-> commitment,
        randomness |-> randomness, sender_id |-> 2,
        type |-> "CommitmentVerification"] :
         value \in {1, order(c)},
         commitment \in {compress(c, generator(c).x, generator(c).y)},
         randomness \in RandomBlocks}
      \cup
      {[proof |-> [curve_type |-> c,
                   commitment |-> compress(c, generator(c).x, generator(c).y),
                   challenge |-> <<1>>,
                   response |-> response,
                   public_point |-> compress(c, generator(c).x, generator(c).y)],
        sender_id |-> 2, type |-> "ProofVerification"] :
         response \in {<<1>>, <<1, 1>>}}
      : c \in CurveType }

\* NetworkNode::process_message on a CommitmentVerification, at node 1 or 3
HandleCommitmentVerification ==
    \E message \in {m \in PeerRequests : m.type = "CommitmentVerification"},
       self_id \in {1, 3} :
      \E result \in handle_commitment_verification(self_id, message.sender_id,
                        message.commitment, message.value, message.randomness,
                        message.curve_type) :
        /\ ret' = [result |-> result,
                   message |-> message,
                   sent_to |-> IF result.ok THEN <<result.v>> ELSE <<>>,
                   op |-> "handle_commitment_verification"]
        /\ UNCHANGED <<laurent_series, pedersen, sent, series, node>>

\* NetworkNode::process_message on a ProofVerification, at node 1 or 3
HandleProofVerification ==
    \E message \in {m \in PeerRequests : m.type = "ProofVerification"},
       self_id \in {1, 3} :
      \E result \in handle_proof_verification(self_id, message.sender_id,
                                              message.proof) :
        /\ ret' = [result |-> result,
                   message |-> message,
                   sent_to |-> IF result.ok THEN <<result.v>> ELSE <<>>,
                   op |-> "handle_proof_verification"]
        /\ UNCHANGED <<laurent_series, pedersen, sent, series, node>>

\* NetworkNode::process_message on a SecretReconstruction, at node 1 or 3
HandleSecretReconstruction ==
    \E message \in {m \in PeerRequests : m.type = "SecretReconstruction"},
       self_id \in {1, 3} :
      \E result \in handle_secret_reconstruction(self_id, message.sender_id,
                        message.shares, message.curve_type) :
        /\ ret' = [result |-> result,
                   message |-> message,
                   sent_to |-> IF result.ok THEN <<result.v>> ELSE <<>>,
                   op |-> "handle_secret_reconstruction"]
        /\ UNCHANGED <<laurent_series, pedersen, sent, series, node>>

Next ==
    \/ InitializeProtocol
    \/ DistributeShares
    \/ HandleShareDistribution
    \/ ReceiveShares
    \/ HandleCommitmentVerification
    \/ HandleProofVerification
    \/ HandleSecretReconstruction

Spec == Init /\ [][Next]_vars

(***************************************************************************)
(* A dealer holding one Laurent series: each behaviour draws a series and  *)
(* makes one call on it.                                                   *)
(***************************************************************************)
InitLaurent ==
    /\ laurent_series = None
    /\ pedersen = None
    /\ sent = <<>>
    /\ ret = NoCall
    /\ participants = <<>>
    /\ channel = <<>>
    /\ received = 0
    /\ run_pc = "recv"
    /\ \E params \in ParamsOffered :
         \E a \in CoeffDraws(params.curve_type, params.threshold),
            b \in CoeffDraws(params.curve_type, params.threshold) :
           series = Some(LaurentSeries_new(params, a, b).v)

\* the lists a caller can form from the dealt shares: any choice, any order
Picks(n) == UNION {[1..k -> 1..n] : k \in 0..MaxShares}

\* shares a peer may hand in: one canonical value, one that is the group
\* order itself
OfferedShares(c) == {Share_new(2, order(c) - 1), Share_new(1, order(c))}

OfferedLists(c) == UNION {[1..k -> OfferedShares(c)] : k \in 0..MaxShares}

\* LaurentSeries::generate_shares
GenerateShares ==
    /\ ret = NoCall
    /\ ret' = [result |-> generate_shares(series.v), op |-> "generate_shares"]
    /\ UNCHANGED <<laurent_series, pedersen, sent, series, node>>

\* LaurentSeries::reconstruct_secret on a list formed from the dealt shares
ReconstructDealt ==
    /\ ret = NoCall
    /\ \E dealt \in {generate_shares(series.v)} :
         /\ dealt.ok
         /\ \E pick \in Picks(Len(dealt.v)) :
              \E shares \in {[j \in 1..Len(pick) |-> dealt.v[pick[j]]]} :
                ret' = [result |-> reconstruct_secret(series.v, shares),
                        shares |-> shares,
                        op |-> "reconstruct_secret",
                        pick |-> pick,
                        origin |-> "dealt"]
    /\ UNCHANGED <<laurent_series, pedersen, sent, series, node>>

\* LaurentSeries::reconstruct_secret on shares handed in by peers
ReconstructOffered ==
    /\ ret = NoCall
    /\ \E shares \in OfferedLists(series.v.curve_type) :
         ret' = [result |-> reconstruct_secret(series.v, shares),
                 shares |-> shares,
                 op |-> "reconstruct_secret",
                 pick |-> <<>>,
                 origin |-> "offered"]
    /\ UNCHANGED <<laurent_series, pedersen, sent, series, node>>

\* commit_all_shares on the dealt shares, then verify_all_committed_shares
\* on what it returned
CommitAndVerifyAll ==
    /\ ret = NoCall
    /\ \E dealt \in {generate_shares(series.v)} :
         /\ dealt.ok
         /\ \E committed \in commit_all_shares(dealt.v, series.v.curve_type) :
              \E verified \in (IF committed.ok
                               THEN verify_all_committed_shares(committed.v,
                                        series.v.curve_type)
                               ELSE {committed}) :
                ret' = [shares |-> dealt.v,
                        committed |-> committed,
                        op |-> "commit_and_verify_all",
                        verified |-> verified]
    /\ UNCHANGED <<laurent_series, pedersen, sent, series, node>>

\* LaurentSeries::verify_share on a dealt share and on copies of it that
\* carry any other 32-byte value up to the group order
VerifyShare ==
    /\ ret = NoCall
    /\ \E dealt \in {generate_shares(series.v)} :
         /\ dealt.ok
         /\ \E i \in 1..Len(dealt.v), value \in 0..order(series.v.curve_type) :
              \E share \in {[dealt.v[i] EXCEPT !.value = value]} :
                ret' = [result |-> verify_share(series.v, share),
                        shares |-> dealt.v,
                        share |-> share,
                        op |-> "verify_share"]
    /\ UNCHANGED <<laurent_series, pedersen, sent, series, node>>

\* laurent::utils::validate_params
ValidateParams ==
    /\ ret = NoCall
    /\ \E params \in ParamsOffered :
         ret' = [result |-> validate_params(params),
                 params |-> params,
                 op |-> "validate_params"]
    /\ UNCHANGED <<laurent_series, pedersen, sent, series, node>>

NextLaurent ==
    \/ GenerateShares
    \/ ReconstructDealt
    \/ ReconstructOffered
    \/ CommitAndVerifyAll
    \/ VerifyShare
    \/ ValidateParams

SpecLaurent == InitLaurent /\ [][NextLaurent]_vars

(***************************************************************************)
(* The cryptographic layer called directly: each behaviour makes one call  *)
(* sequence and records it.                                                *)
(***************************************************************************)
InitCrypto ==
    /\ laurent_series = None
    /\ pedersen = None
    /\ sent = <<>>
    /\ series = None
    /\ ret = NoCall
    /\ participants = <<>>
    /\ channel = <<>>
    /\ received = 0
    /\ run_pc = "recv"

\* every 32-byte string up to one past the group order
OfferedBlocks(c) == 0..(order(c) + 1)

\* every byte string of the length of a compressed point
EncodingsOffered(c) ==
    IF c = "Edwards25519"
    THEN {<<b>> : b \in 0..(2 * EdwardsSignBit - 1)}
    ELSE {<<tag, x>> : tag \in {2, 3}, x \in 0..(field_modulus(c) - 1)}

\* the points Point::from_compressed_bytes returns
PointsOffered(c) ==
    {r.v : r \in {d \in {Point_from_compressed_bytes(c, e) :
                           e \in EncodingsOffered(c)} : d.ok}}

\* parameter records a caller can hold: the fields are public
PedersenInstances(c) ==
    {[curve_type |-> c, h |-> h, g |-> generator(c)] : h \in PointsOffered(c)}

AllScalars == UNION {Scalars(c) : c \in CurveType}

AllPoints == UNION {PointsOffered(c) : c \in CurveType}

Messages == {<<>>, <<0>>, <<1, 2>>}

\* PedersenCommitment::new twice, then a commitment made under the first
\* parameters and verified under the second
PedersenNewTwice ==
    /\ ret = NoCall
    /\ \E c \in CurveType :
         \E h1 \in RandomScalars(c), h2 \in RandomScalars(c),
            value \in Scalars(c), randomness \in RandomBlocks :
           \E first \in {PedersenCommitment_new(c, h1)},
              second \in {PedersenCommitment_new(c, h2)} :
             \E committed \in {Bind(first, LAMBDA params :
                                      commit(params, value, randomness))} :
               ret' = [curve_type |-> c,
                       committed |-> committed,
                       op |-> "PedersenCommitment::new",
                       verified |->
                         Bind(committed, LAMBDA commitment :
                         Bind(second, LAMBDA params :
                         PedersenCommitment_verify(params, commitment, value,
                                                   randomness))),
                       first |-> first,
                       second |-> second,
                       draws |-> <<h1, h2>>]
    /\ UNCHANGED <<laurent_series, pedersen, sent, series, node>>

\* commit, then verify with the same value and with another value
CommitVerify ==
    /\ ret = NoCall
    /\ \E c \in CurveType :
         \E instance \in PedersenInstances(c), value \in Scalars(c),
            other \in Scalars(c), randomness \in OfferedBlocks(c) :
           \E committed \in {commit(instance, value, randomness)} :
             ret' = [value |-> value,
                     other |-> other,
                     randomness |-> randomness,
                     committed |-> committed,
                     op |-> "commit",
                     instance |-> instance,
                     same |-> Bind(committed, LAMBDA commitment :
                                PedersenCommitment_verify(instance, commitment,
                                                          value, randomness)),
                     different |-> Bind(committed, LAMBDA commitment :
                                     PedersenCommitment_verify(instance,
                                         commitment, other, randomness))]
    /\ UNCHANGED <<laurent_series, pedersen, sent, series, node>>

\* ZeroKnowledgeProof::prove, then verify on the proof it left
ProveVerify ==
    /\ ret = NoCall
    /\ \E c \in CurveType :
         \E instance \in PedersenInstances(c), value \in Scalars(c),
            randomness \in OfferedBlocks(c),
            alpha \in RandomScalars(c), beta \in RandomScalars(c) :
           \E proved \in {prove(ZeroKnowledgeProof_new(c), instance, value,
                                randomness, alpha, beta)} :
             ret' = [value |-> value,
                     randomness |-> randomness,
                     op |-> "prove",
                     verified |-> Bind(proved, LAMBDA proof :
                                    ZeroKnowledgeProof_verify(proof, instance)),
                     draws |-> <<alpha, beta>>,
                     instance |-> instance,
                     proved |-> proved]
    /\ UNCHANGED <<laurent_series, pedersen, sent, series, node>>

\* SchnorrSignature::sign, then verify on the signature it left
SignVerify ==
    /\ ret = NoCall
    /\ \E c \in CurveType :
         \E private_key \in Scalars(c), message \in Messages,
            k \in RandomScalars(c) :
           \E signed \in {sign(SchnorrSignature_new(c), message, private_key, k)} :
             ret' = [curve_type |-> c,
                     message |-> message,
                     private_key |-> private_key,
                     op |-> "sign",
                     verified |-> Bind(signed, LAMBDA signature :
                                    SchnorrSignature_verify(signature, message)),
                     signed |-> signed,
                     draw |-> k]
    /\ UNCHANGED <<laurent_series, pedersen, sent, series, node>>

\* Scalar::add
ScalarAdd ==
    /\ ret = NoCall
    /\ \E a \in AllScalars, b \in AllScalars :
         ret' = [a |-> a,
                 b |-> b,
                 result |-> Scalar_add(a, b),
                 op |-> "Scalar::add"]
    /\ UNCHANGED <<laurent_series, pedersen, sent, series, node>>

\* Scalar::mul
ScalarMul ==
    /\ ret = NoCall
    /\ \E a \in AllScalars, b \in AllScalars :
         ret' = [a |-> a,
                 b |-> b,
                 result |-> Scalar_mul(a, b),
                 op |-> "Scalar::mul"]
    /\ UNCHANGED <<laurent_series, pedersen, sent, series, node>>

\* Point::add
PointAdd ==
    /\ ret = NoCall
    /\ \E a \in AllPoints, b \in AllPoints :
         ret' = [a |-> a,
                 b |-> b,
                 result |-> Point_add(a, b),
                 op |-> "Point::add"]
    /\ UNCHANGED <<laurent_series, pedersen, sent, series, node>>

\* Point::mul
PointMul ==
    /\ ret = NoCall
    /\ \E a \in AllPoints, b \in AllScalars :
         ret' = [a |-> a,
                 b |-> b,
                 result |-> Point_mul(a, b),
                 op |-> "Point::mul"]
    /\ UNCHANGED <<laurent_series, pedersen, sent, series, node>>

NextCrypto ==
    \/ PedersenNewTwice
    \/ CommitVerify
    \/ ProveVerify
    \/ SignVerify
    \/ ScalarAdd
    \/ ScalarMul
    \/ PointAdd
    \/ PointMul

SpecCrypto == InitCrypto /\ [][NextCrypto]_vars

(***************************************************************************)
(* A verifier handed a proof and a parameter record that were both read    *)
(* off the wire (every field of both is public and deserialisable): each   *)
(* behaviour makes one call of ZeroKnowledgeProof::verify.                 *)
(***************************************************************************)
\* longest response offered, in 32-byte blocks
MaxResponseBlocks == 3

\* the points a parameter record may carry: the generator and, on the
\* Edwards curve, two points whose x field reads as a compressed point
WirePoints(c) ==
    IF c = "Edwards25519"
    THEN {generator(c), Point_new(c, 26, 24), Point_new(c, 3, 5)}
    ELSE {generator(c)}

WireInstances(c) ==
    {[curve_type |-> c, h |-> h, g |-> g] :
       g \in WirePoints(c), h \in WirePoints(c)}

\* responses of one to MaxResponseBlocks 32-byte blocks, each block zero,
\* one or the group order
ResponsesOffered ==
    UNION {[1..k -> {0, 1, order("Edwards25519")}] : k \in 1..MaxResponseBlocks}

ChallengesOffered == {<<0>>, <<2>>, <<order("Edwards25519")>>}

\* byte strings of the length of a compressed point
WireEncodings(c) ==
    IF c = "Edwards25519" THEN {<<0>>, <<1>>, <<EdwardsSignBit + 1>>}
    ELSE {compress(c, generator(c).x, generator(c).y), <<2, 0>>}

ProofsOffered(c) ==
    {[curve_type |-> c, commitment |-> commitment, challenge |-> challenge,
      response |-> response, public_point |-> public_point] :
       commitment \in WireEncodings(c), challenge \in ChallengesOffered,
       response \in ResponsesOffered, public_point \in WireEncodings(c)}

\* ZeroKnowledgeProof::verify
VerifyProof ==
    /\ ret = NoCall
    /\ \E c \in CurveType, d \in CurveType :
         \E proof \in ProofsOffered(c), instance \in WireInstances(d) :
           ret' = [result |-> ZeroKnowledgeProof_verify(proof, instance),
                   proof |-> proof,
                   op |-> "ZeroKnowledgeProof::verify",
                   instance |-> instance]
    /\ UNCHANGED <<laurent_series, pedersen, sent, series, node>>

NextVerify == VerifyProof

SpecVerify == InitCrypto /\ [][NextVerify]_vars

(***************************************************************************)
(* The node of a coordinator (id 1): its participant table behind the      *)
(* lock, its channel, the run loop and the HTTP route /heartbeat.  Every   *)
(* writer holds the write lock for its whole update, so each is one step.  *)
(***************************************************************************)
\* most messages ever sent on the channel
MaxChannel == 2

\* the messages that can reach the node: a distribution (empty), heartbeats
\* of the peers 2 and 3, and the four variants process_message has no arm for
NodeMessages ==
    {ShareDistribution(2, <<>>, <<>>, <<>>, "Secp256k1"),
     [sender_id |-> 2, type |-> "Heartbeat", timestamp |-> 1],
     [sender_id |-> 2, type |-> "Heartbeat", timestamp |-> 2],
     [sender_id |-> 3, type |-> "Heartbeat", timestamp |-> 1],
     [commitment |-> <<2, 0>>, sender_id |-> 2,
      type |-> "CommitmentVerificationResponse", is_valid |-> TRUE],
     [sender_id |-> 2, type |-> "ProofVerificationResponse",
      is_valid |-> TRUE, proof_commitment |-> <<2, 0>>],
     [secret |-> 1, participants_used |-> <<2>>, sender_id |-> 2,
      type |-> "SecretReconstructionResponse", is_valid |-> TRUE],
     [sender_id |-> 2, type |-> "Error", error |-> "Invalid proof"]}

\* NetworkNode::add_participant: HashMap::insert under the write lock
AddParticipant ==
    /\ \E id \in {2, 3}, is_online \in BOOLEAN :
         participants' =
           [i \in DOMAIN participants \cup {id} |->
              IF i = id
              THEN [id |-> id, is_online |-> is_online, last_heartbeat |-> 0]
              ELSE participants[i]]
    /\ ret' = [result |-> Ok(TRUE), op |-> "add_participant"]
    /\ UNCHANGED <<laurent_series, pedersen, sent, series,
                   channel, received, run_pc>>

\* NetworkNode::remove_participant: HashMap::remove under the write lock
RemoveParticipant ==
    /\ \E id \in {2, 3} :
         participants' = [i \in DOMAIN participants \ {id} |-> participants[i]]
    /\ ret' = [result |-> Ok(TRUE), op |-> "remove_participant"]
    /\ UNCHANGED <<laurent_series, pedersen, sent, series,
                   channel, received, run_pc>>

\* NetworkNode::process_message called on a message
ProcessMessage ==
    /\ \E message \in NodeMessages :
         \E outcome \in process_message(1, participants, message) :
           /\ participants' = outcome.participants
           /\ ret' = [result |-> outcome.result,
                      message |-> message,
                      sent_to |-> outcome.sent_to,
                      op |-> "process_message"]
    /\ UNCHANGED <<laurent_series, pedersen, sent, series,
                   channel, received, run_pc>>

\* the HTTP route /heartbeat
ReceiveHeartbeat ==
    /\ \E message \in NodeMessages :
         \E outcome \in {receive_heartbeat(participants, message)} :
           /\ participants' = outcome.participants
           /\ ret' = [result |-> outcome.result,
                      message |-> message,
                      op |-> "receive_heartbeat"]
    /\ UNCHANGED <<laurent_series, pedersen, sent, series,
                   channel, received, run_pc>>

\* message_sender.send by a holder of the sender half
SendMessage ==
    /\ Len(channel) < MaxChannel
    /\ \E message \in {m \in NodeMessages :
                        m.sender_id = 2 /\ m.type \in {"ShareDistribution",
                                                       "Heartbeat", "Error"}} :
         channel' = Append(channel, message)
    /\ UNCHANGED <<laurent_series, pedersen, sent, series, ret,
                   participants, received, run_pc>>

\* one round of the loop of NetworkCoordinator::run: recv, process_message,
\* and `?` returns on an error
RunStep ==
    /\ run_pc = "recv"
    /\ received < Len(channel)
    /\ \E outcome \in process_message(1, participants, channel[received + 1]) :
         /\ participants' = outcome.participants
         /\ run_pc' = IF outcome.result.ok THEN "recv" ELSE "returned"
         /\ ret' = [result |-> outcome.result,
                    message |-> channel[received + 1],
                    sent_to |-> outcome.sent_to,
                    op |-> "run"]
    /\ received' = received + 1
    /\ UNCHANGED <<laurent_series, pedersen, sent, series, channel>>

NextNode ==
    \/ AddParticipant
    \/ RemoveParticipant
    \/ ProcessMessage
    \/ ReceiveHeartbeat
    \/ SendMessage
    \/ RunStep

SpecNode == Init /\ [][NextNode]_vars

\* the run loop is scheduled whenever a message waits
FairSpecNode == SpecNode /\ WF_vars(RunStep)

(***************************************************************************)
(* Properties.                                                                                     *)
(***************************************************************************)
\* C1: whenever distribute_shares runs on a coordinator that
\* initialize_protocol has given a Laurent series, it builds a
\* ShareDistribution message, and handle_share_distribution and
\* verify_share_distribution accept that message whatever they draw.
C1_DistributedSharesAccepted ==
    (ret.op = "distribute_shares" /\ ret.initialised) =>
        /\ ret.result.ok
        /\ LET m == ret.result.v
           IN /\ \A r \in handle_share_distribution(m.sender_id, m.shares,
                              m.commitments, m.proofs, m.curve_type) :
                    r = Ok(TRUE)
              /\ \A r \in verify_share_distribution(m.commitments, m.proofs,
                              m.curve_type) :
                    r = Ok(TRUE)

\* C2: verify_all_committed_shares applied to the output of
\* commit_all_shares on the dealt shares returns true.
C2_CommittedSharesVerify ==
    ret.op = "commit_and_verify_all" =>
        /\ ret.committed.ok
        /\ ret.verified = Ok(TRUE)

\* T pairwise distinct positions among the dealt shares
DistinctPick(pick, threshold) ==
    /\ Len(pick) = threshold
    /\ \A i, j \in 1..Len(pick) : i # j => pick[i] # pick[j]

\* C4: for a series whose parameters validate_params accepts,
\* reconstruct_secret on any T distinct shares of the N dealt ones returns
\* the value of get_secret_key.
C4_ReconstructionRecoversKey ==
    (/\ ret.op = "reconstruct_secret"
     /\ ret.origin = "dealt"
     /\ validate_params(series.v).ok
     /\ DistinctPick(ret.pick, series.v.threshold)) =>
        /\ ret.result.ok
        /\ get_secret_key(series.v)
             = Ok(Scalar_new(series.v.curve_type, ret.result.v.secret))

RECURSIVE SumOfValues(_, _)
\* the integer sum of the values of the first n shares of a list
SumOfValues(shares, n) ==
    IF n = 0 THEN 0 ELSE SumOfValues(shares, n - 1) + shares[n].value

\* the result the claim C5 describes for a list and a threshold
FirstSharesResult(c, shares, threshold) ==
    Ok([secret |-> SumOfValues(shares, threshold) % order(c),
        participants_used |-> [j \in 1..threshold |-> shares[j].id],
        valid |-> TRUE])

\* the value decodes as a scalar of the curve
DecodesAsScalar(c, value) == c = "Edwards25519" \/ value < order(c)

C6_InsufficientShares ==
    (ret.op = "reconstruct_secret"
       /\ Len(ret.shares) < series.v.threshold) =>
        ret.result = [ok |-> FALSE, err |-> "InsufficientShares",
                      required |-> series.v.threshold,
                      got |-> Len(ret.shares)]

\* a non-empty list shorter than the threshold was refused
C6_Witness ==
    /\ ret.op = "reconstruct_secret"
    /\ Len(ret.shares) >= 1
    /\ Len(ret.shares) < series.v.threshold
    /\ ~ret.result.ok

\* C3: a proof produced by prove for a value, a randomness and Pedersen
\* parameters verifies under the same parameters.
C3_ProofCompleteness ==
    ret.op = "prove" =>
        /\ ret.proved.ok
        /\ ret.verified = Ok(TRUE)

\* C7: a signature produced by sign for a message and a private key
\* verifies against the same message.
C7_SchnorrCompleteness ==
    ret.op = "sign" =>
        /\ ret.signed.ok
        /\ ret.verified = Ok(TRUE)

\* C8: two PedersenCommitment instances built for the same curve have the
\* same g and h, and a commitment made under one verifies under the other.
C8_DeterministicParameters ==
    ret.op = "PedersenCommitment::new" =>
        /\ ret.first.ok
        /\ ret.second.ok
        /\ ret.first.v = ret.second.v
        /\ ret.verified = Ok(TRUE)

\* C9: under one PedersenCommitment instance, verify(commit(x, r), x, r)
\* is true, and verify(commit(x, r), x', r) is false for x' # x.
C9_CommitmentConsistency ==
    ret.op = "commit" =>
        /\ ret.committed.ok
        /\ ret.same = Ok(TRUE)
        /\ (ret.other # ret.value => ret.different = Ok(FALSE))

CrossCurveOps == {"Scalar::add", "Scalar::mul", "Point::add", "Point::mul"}

\* C10: Scalar::add, Scalar::mul, Point::add and Point::mul return
\* CurveError whenever their two operands carry different curve tags.
C10_CurveTagsChecked ==
    (ret.op \in CrossCurveOps /\ ret.a.curve_type # ret.b.curve_type) =>
        ret.result = Err("CurveError")

\* two scalars of different curves, whose sum exists on either curve, were
\* refused
C10_Witness ==
    /\ ret.op = "Scalar::add"
    /\ ret.a.curve_type # ret.b.curve_type
    /\ ret.a.value # 0
    /\ ret.b.value # 0
    /\ ret.result = Err("CurveError")

\* C11: ZeroKnowledgeProof::verify on a proof whose curve_type is secp256k1,
\* against Pedersen parameters of P-256, returns Ok(false) and not an error.
\* The proof is taken well formed on its own curve: a 64-byte response and
\* a challenge that decode as scalars, a commitment that decodes as a point.
WellFormedProof(proof) ==
    /\ Len(proof.response) = 2
    /\ scalar_from_bytes(proof.curve_type, proof.response[1]).ok
    /\ scalar_from_bytes(proof.curve_type, proof.response[2]).ok
    /\ scalar_from_slice(proof.curve_type, proof.challenge).ok
    /\ Point_from_compressed_bytes(proof.curve_type, proof.commitment).ok

C11_CrossCurveProofIsFalse ==
    (/\ ret.op = "ZeroKnowledgeProof::verify"
     /\ ret.proof.curve_type = "Secp256k1"
     /\ ret.instance.curve_type = "P256"
     /\ WellFormedProof(ret.proof))
    => ret.result = Ok(FALSE)

\* the five values a proof carries: C, c, s1, s2 and A
ProofValues(proof) ==
    <<proof.commitment, proof.challenge, proof.response[1], proof.response[2],
      proof.public_point>>

\* the offered proofs with a 64-byte response that differ from the proof in
\* exactly one of the five values
Tamperings(proof) ==
    {q \in ProofsOffered(proof.curve_type) :
       /\ Len(q.response) = 2
       /\ Cardinality({i \in 1..5 : ProofValues(q)[i] # ProofValues(proof)[i]}) = 1}

DerivedChallenge(proof) ==
    Bind(hash_to_scalar(proof.curve_type,
             create_challenge_input(proof, proof.commitment,
                                    proof.public_point)),
         LAMBDA challenge : Ok(<<challenge.value>>))

C15_ReinitialiseRejected ==
    [][(InitializeProtocol /\ laurent_series.some)
       => (/\ ~ret'.result.ok
           /\ laurent_series' = laurent_series
           /\ pedersen' = pedersen)]_vars

\* C16: when a node (process_message) or the HTTP route /shares takes in a
\* ShareDistribution that carries a commitment and a proof and does not
\* accept it, the failure is the typed error of the first failing element,
\* CommitmentError for a commitment or ZKProofError for a proof, and the
\* coordinator's laurent_series and pedersen are left unchanged.
C16_InvalidDistributionTypedError ==
    [][((HandleShareDistribution \/ ReceiveShares)
        /\ Len(ret'.message.commitments) > 0
        /\ ret'.result # Ok(TRUE))
       => (/\ ret'.result \in {Err("CommitmentError"), Err("ZKProofError")}
           /\ UNCHANGED <<laurent_series, pedersen>>)]_vars

\* C17: a node that has processed no message yet, so no ShareDistribution
\* of any dealer, rejects a SecretReconstruction: the call fails and no
\* response is sent.
C17_ReconstructionBeforeDistributionRejected ==
    [][(ret = NoCall /\ HandleSecretReconstruction)
       => (~ret'.result.ok /\ ret'.sent_to = <<>>)]_vars

\* C18: on a coordinator initialised with threshold T, a SecretReconstruction
\* request that carries fewer than T shares fails with InsufficientShares
\* and no SecretReconstructionResponse is sent.
C18_ReconstructionNeedsThreshold ==
    (/\ ret.op = "handle_secret_reconstruction"
     /\ laurent_series.some
     /\ Len(ret.message.shares) < laurent_series.v.threshold)
    => (/\ ~ret.result.ok
        /\ ret.result.err = "InsufficientShares"
        /\ ret.sent_to = <<>>)

\* the calls in which a node handles a message of a peer
NodeOps ==
    {"handle_share_distribution", "handle_commitment_verification",
     "handle_proof_verification", "handle_secret_reconstruction"}

\* C19: whenever a node fails to handle a message of a peer, it sends an
\* Error message, and that message carries the sender and the error text
\* only, no share value and no randomness.
C19_FailureAnsweredWithError ==
    (ret.op \in NodeOps /\ ~ret.result.ok)
    => \E i \in 1..Len(ret.sent_to) :
         /\ ret.sent_to[i].type = "Error"
         /\ DOMAIN ret.sent_to[i] \subseteq {"type", "sender_id", "error"}

\* the results a node can return for a verification request
VerificationResults(self_id, message) ==
    IF message.type = "CommitmentVerification"
    THEN handle_commitment_verification(self_id, message.sender_id,
             message.commitment, message.value, message.randomness,
             message.curve_type)
    ELSE handle_proof_verification(self_id, message.sender_id, message.proof)

\* C20: a CommitmentVerification or ProofVerification request that a node
\* has answered gets, from every handling of the same request at the same
\* or at another node, a response with the same is_valid.
C20_VerificationIdempotent ==
    (ret.op \in {"handle_commitment_verification", "handle_proof_verification"})
    => \A self_id \in {1, 3} :
         \A again \in VerificationResults(self_id, ret.message) :
           /\ ret.result.ok
           /\ again.ok
           /\ again.v.is_valid = ret.result.v.is_valid

\* the variants process_message has no arm for
UnhandledTypes ==
    {"CommitmentVerificationResponse", "ProofVerificationResponse",
     "SecretReconstructionResponse", "Error"}

\* C21: process_message on a CommitmentVerificationResponse, a
\* ProofVerificationResponse, a SecretReconstructionResponse or an Error,
\* called directly or from run, returns Ok, hands no message to send_to and
\* leaves the participant table as it was.
C21_UnhandledDropped ==
    [][((ProcessMessage \/ RunStep) /\ ret'.message.type \in UnhandledTypes)
       => (/\ ret'.result = Ok(TRUE)
           /\ ret'.sent_to = <<>>
           /\ participants' = participants)]_vars

\* an unhandled variant was processed by a node whose table holds a peer
C21_Witness ==
    /\ ret.op = "process_message"
    /\ ret.message.type \in UnhandledTypes
    /\ participants # <<>>

\* C22: validate_params returns Err(InvalidInput) exactly when the threshold
\* is below 2 or the participant count is below the threshold, and Ok(())
\* for every other pair.
C22_ValidateParams ==
    (ret.op = "validate_params")
    => ret.result =
         (IF ret.params.threshold < 2
             \/ ret.params.participants < ret.params.threshold
          THEN Err("InvalidInput") ELSE Ok(TRUE))

\* a threshold of at least 2 with too few participants was refused
C22_Witness ==
    /\ ret.op = "validate_params"
    /\ ret.params.threshold >= 2
    /\ ret.params.participants < ret.params.threshold
    /\ ret.result = Err("InvalidInput")

\* C23: verify_share returns true for the i-th share generate_shares
\* returned, and false for a share of the same id with another value.
C23_ShareVerifiable ==
    (ret.op = "verify_share")
    => ret.result = Ok(ret.share.value = ret.shares[ret.share.id].value)

\* a share with the dealt id and another value was checked and refused
C23_Witness ==
    /\ ret.op = "verify_share"
    /\ ret.share.value # ret.shares[ret.share.id].value
    /\ ret.result = Ok(FALSE)
    /\ series.v.threshold >= 2

RECURSIVE SeqSum(_, _)
\* the sum of the first n entries of a sequence of numbers
SeqSum(terms, n) == IF n = 0 THEN 0 ELSE terms[n] + SeqSum(terms, n - 1)

\* the inverse of a modulo the prime q, for a not divisible by q
TrueInverse(a, q) == CHOOSE x \in 1..(q - 1) : (a * x) % q = 1

\* A(i) + B(i) mod q for the series: the sum over k = 0..T-1 of a_k * i^k
\* plus the sum over k = 1..T of b_(k-1) * (i^k)^(-1)
LaurentValue(self, i) ==
    (SeqSum([k \in 1..self.threshold |->
               self.a_coeffs[k].value * i ^ (k - 1)], self.threshold)
     + SeqSum([k \in 1..self.threshold |->
                 self.b_coeffs[k].value
                 * TrueInverse(i ^ k, order(self.curve_type))],
              self.threshold))
    % order(self.curve_type)

\* C24: generate_shares returns exactly N shares, with the ids 1, 2, ..., N
\* in that order; the share of id i has the value A(i) + B(i) mod q computed
\* with true modular inverses, and carries no commitment and no proof.
C24_SharesFollowTheSeries ==
    (ret.op = "generate_shares")
    => /\ ret.result.ok
       /\ Len(ret.result.v) = series.v.participants
       /\ \A i \in 1..series.v.participants :
            ret.result.v[i] =
              [value |-> LaurentValue(series.v, i), id |-> i,
               commitment |-> None, proof |-> None]

\* shares were dealt by a series with T = 2 for at least two participants
C24_Witness ==
    /\ ret.op = "generate_shares"
    /\ ret.result.ok
    /\ series.v.threshold = 2
    /\ Len(ret.result.v) >= 2

\* C25: the Laurent series a coordinator holds always has a threshold of at
\* least 2 and at least as many participants as its threshold
C25_SeriesParametersValid ==
    laurent_series.some =>
      /\ laurent_series.v.threshold >= 2
      /\ laurent_series.v.participants >= laurent_series.v.threshold

\* C26: a coordinator holds a Laurent series exactly when it holds Pedersen
\* parameters, and distribute_shares answers InvalidInput on a coordinator
\* that was not initialised and never panics
C26_InitialisedTogether ==
    /\ laurent_series.some <=> pedersen.some
    /\ ret.op = "distribute_shares" =>
         /\ ret.result # Err("panic")
         /\ ~ret.initialised => ret.result = Err("InvalidInput")

\* the Pedersen commitment of a share's value under a randomness, with the
\* coordinator's parameters
CommitmentOf(self, share, randomness) == commit_share(self, share, randomness)

\* C27: distribute_shares on an initialised coordinator builds a distribution
\* whose three lists have the length N of the series and whose i-th proof
\* and i-th committed share both carry the Pedersen commitment of the i-th
\* share's value under the i-th recorded randomness
C27_DistributionConsistent ==
    (ret.op = "distribute_shares" /\ ret.initialised) =>
      /\ ret.result.ok
      /\ Len(ret.result.v.shares) = laurent_series.v.participants
      /\ Len(ret.result.v.commitments) = laurent_series.v.participants
      /\ Len(ret.result.v.proofs) = laurent_series.v.participants
      /\ \A i \in 1..laurent_series.v.participants :
           /\ ret.result.v.proofs[i].commitment
                = ret.result.v.commitments[i].commitment
           /\ Ok(ret.result.v.commitments[i].commitment)
                = CommitmentOf(pedersen.v, ret.result.v.shares[i],
                               ret.result.v.commitments[i].randomness)

\* the steps that handle a message: process_message called directly or from
\* run, and the HTTP route /heartbeat
HeartbeatStep ==
    (ProcessMessage \/ RunStep \/ ReceiveHeartbeat)
      /\ ret'.message.type = "Heartbeat"

\* C28: whatever add_participant, remove_participant and the heartbeat
\* handlers did before, a step that handles a Heartbeat leaves the table with
\* the same entries, the sender's entry (if it has one) online with the
\* heartbeat's timestamp, and every other entry as it was
C28_HeartbeatUpdatesSenderOnly ==
    [][HeartbeatStep =>
         /\ DOMAIN participants' = DOMAIN participants
         /\ \A i \in DOMAIN participants :
              /\ participants'[i].id = participants[i].id
              /\ participants'[i].is_online =
                   IF i = ret'.message.sender_id THEN TRUE
                   ELSE participants[i].is_online
              /\ participants'[i].last_heartbeat =
                   IF i = ret'.message.sender_id THEN ret'.message.timestamp
                   ELSE participants[i].last_heartbeat]_vars

\* the route /heartbeat has recorded a heartbeat of peer 2 while peer 3 is in
\* the table, offline
C28_Witness ==
    /\ ret.op = "receive_heartbeat"
    /\ ret.message.type = "Heartbeat"
    /\ ret.message.sender_id = 2
    /\ DOMAIN participants = {2, 3}
    /\ participants[2].is_online
    /\ participants[2].last_heartbeat = ret.message.timestamp
    /\ ~participants[3].is_online

\* C29: every message sent on the node's channel is eventually taken and
\* processed by run, whatever became of the messages before it
C29_EveryMessageProcessed ==
    \A i \in 1..MaxChannel : (Len(channel) >= i) ~> (received >= i)

\* C30: a point returned by Point::from_compressed_bytes is accepted as the
\* operand of Point::add and Point::mul with an operand of its own curve,
\* and the point these return encodes with to_compressed_bytes to a string
\* that from_compressed_bytes decodes to the same point
C30_ReturnedPointsUsable ==
    (ret.op \in {"Point::add", "Point::mul"}
       /\ ret.a.curve_type = ret.b.curve_type) =>
      /\ ret.result.ok
      /\ Point_to_compressed_bytes(ret.result.v).ok
      /\ Point_from_compressed_bytes(ret.a.curve_type,
             Point_to_compressed_bytes(ret.result.v).v) = Ok(ret.result.v)

====
